---------------------------- MODULE Spec2Model ----------------------------
(***************************************************************************)
(* Stock broker dashboard: the in-browser mock server (src/mockServer.js)  *)
(* and the React viewer (App).                                             *)
(*                                                                         *)
(* Money is counted in cents (integers): every price the code stores has   *)
(* gone through toFixed(2).  Math.random() is a fraction k / RandDenom     *)
(* with 0 <= k < RandDenom.                                                *)
(***************************************************************************)
EXTENDS Integers, Sequences, FiniteSets, TLC

VARIABLES
    store,      \* mock server: [accountData |-> accountId -> [stocks |-> Seq(quote)]]
    now,        \* mock server: seconds elapsed, read by Date.now()
    reqPath,    \* a caller's request path, as its "/"-separated segments
    response,   \* what apiFetch resolved to for reqPath, or NoResponse
    fnIn,       \* the arguments of one call of randomPrice or of the tick's price update
    fnOut,      \* the result of that call, or NoResult
    app,        \* the viewer: the state of StockBrokerDashboard, its interval
                \* timers and its apiFetch calls in flight
    tick        \* mock server: where the tick callback stands in its forEach
                \* loops (pos 0: not running) and the random stream it draws from

vars == <<store, now, reqPath, response, fnIn, fnOut, app, tick>>

---------------------------------------------------------------------------
(* Bounds of the model *)

\* the number of 1-second ticks of the price simulator that are explored
MaxTicks == 3

\* the longest request path (in segments) a caller sends
MaxPathLen == 4

\* the prices from 0.01 up to this many cents are tried as the price before a tick
MaxSmallPrice == 300

\* the most apiFetch calls of the viewer that are in flight at once
MaxPending == 3

\* the number of interval timers the viewer creates in a run
MaxTimers == 4

\* the number of ticks explored quote by quote, with queries in between
MaxLoopTicks == 2

---------------------------------------------------------------------------
(* Arithmetic helpers *)

Max(a, b) == IF a >= b THEN a ELSE b

Abs(a) == IF a >= 0 THEN a ELSE -a

\* x.toFixed(0) for x = num/den, den > 0: the integer nearest to x.  When x is
\* a decimal tie (n + 1/2) the double that stands for x lies just above or
\* just below the tie, and toFixed rounds that double: up says which.
RoundDiv(num, den, up) ==
    LET hi == (2 * num + den) \div (2 * den)
    IN  IF (2 * num + den) % (2 * den) = 0 /\ ~up THEN hi - 1 ELSE hi

---------------------------------------------------------------------------
(* The seeded store *)

StoreCompanies ==
    << [id |-> "c1", name |-> "Sumaiya Tech"],
       [id |-> "c2", name |-> "Fathima Holdings"] >>

StoreAccounts ==
    [ c1 |-> << [id |-> "a1", name |-> "Sumaiya - Account 1", stocks |-> <<"GOOG", "TSLA", "AMZN">>],
                [id |-> "a2", name |-> "Sumaiya - Account 2", stocks |-> <<"META", "NVDA">>] >>,
      c2 |-> << [id |-> "b1", name |-> "Fathima - Account 1", stocks |-> <<"TSLA", "NVDA">>],
                [id |-> "b2", name |-> "Fathima - Account 2", stocks |-> <<"GOOG", "AMZN", "META">>] >> ]

\* Object.values(store.accounts).flat(): the accounts in insertion order
FlatAccounts == StoreAccounts["c1"] \o StoreAccounts["c2"]

AccountIds == { FlatAccounts[i].id : i \in 1..Len(FlatAccounts) }

CompanyIds == { StoreCompanies[i].id : i \in 1..Len(StoreCompanies) }

AccountIndex(accId) == CHOOSE i \in 1..Len(FlatAccounts) : FlatAccounts[i].id = accId

RECURSIVE StocksBefore(_)
\* how many quotes the forEach loops visit before the first quote of account i
StocksBefore(i) ==
    IF i <= 1 THEN 0 ELSE StocksBefore(i - 1) + Len(FlatAccounts[i - 1].stocks)

\* the position of quote j of account accId in the order the loops visit quotes
QuoteOrdinal(accId, j) == StocksBefore(AccountIndex(accId)) + j

---------------------------------------------------------------------------
(* Math.random() *)

\* Math.random() returns k / RandDenom for an integer 0 <= k < RandDenom
RandDenom == 40000

\* the draws explored at initialization (k): 0, 1/2, just under 1
InitDraws == <<0, 20000, 39999>>

\* the draws explored in a tick (k): 0, 1/4, 1/2, 3/4, just under 1
TickDraws == <<0, 10000, 20000, 30000, 39999>>

\* The n-th call of Math.random() in one handler, for the stream that starts
\* at position shift of the list of draws
RandomAt(draws, shift, n) == draws[((n - 1 + shift) % Len(draws)) + 1]

---------------------------------------------------------------------------
(* Initialization: randomPrice and initAccountData *)

\* the base price in cents of randomPrice(100)
BaseCents == 10000

\* Math.random() * base, the base not added
randomPriceNoBase(base, k, up) == RoundDiv(k * base, RandDenom, up)

\* +(base + Math.random() * base).toFixed(2), in cents; base is a whole
\* number of cents
randomPrice(base, k, up) == base + RoundDiv(k * base, RandDenom, up)

\* randomPrice(200) in place of randomPrice(100)
initQuoteWrongBase(ticker, k, up, t) ==
    [ticker |-> ticker, price |-> randomPrice(2 * BaseCents, k, up), change |-> 0, updatedAt |-> t]

\* one quote as initAccountData builds it
initQuote(ticker, k, up, t) ==
    [ticker |-> ticker, price |-> randomPrice(BaseCents, k, up), change |-> 0, updatedAt |-> t]

initAccountData(shift, up, t) ==
    [ accId \in AccountIds |->
        LET acc == FlatAccounts[AccountIndex(accId)]
        IN  [stocks |-> [ j \in 1..Len(acc.stocks) |->
                initQuote(acc.stocks[j],
                          RandomAt(InitDraws, shift, QuoteOrdinal(accId, j)), up, t) ]] ]

---------------------------------------------------------------------------
(* The tick of the price simulator (setInterval callback, every second) *)

\* the floor of a price, 0.01, in cents
FloorCents == 1

\* a delta of price * 0.2 in place of price * 0.02
newPriceTenfold(price, k, up) ==
    Max(FloorCents, price + RoundDiv((2 * k - RandDenom) * price, 10 * RandDenom, up))

\* Math.max(0.01, +(s.price + delta).toFixed(2)) in cents, where
\* delta = (k/RandDenom - 0.5) * (price * 0.02) = (2k - RandDenom) * price / (100 * RandDenom)
\* and price is a whole number of cents
newPrice(price, k, up) ==
    Max(FloorCents, price + RoundDiv((2 * k - RandDenom) * price, 100 * RandDenom, up))

\* the change computed after s.price was overwritten
perturbStale(s, k, up, t) ==
    LET np == newPrice(s.price, k, up)
    IN  [ticker |-> s.ticker, price |-> np, change |-> RoundDiv(np - np, 1, up), updatedAt |-> t]

\* the body of acc.stocks.forEach: one quote perturbed; the change is
\* +((newPrice - s.price).toFixed(2)), a difference of whole cents
perturb(s, k, up, t) ==
    LET np == newPrice(s.price, k, up)
    IN  [ticker |-> s.ticker, price |-> np, change |-> RoundDiv(np - s.price, 1, up), updatedAt |-> t]

\* the quotes rebuilt in reverse order
tickAccountDataReversed(data, shift, up, t) ==
    [ accId \in DOMAIN data |->
        [stocks |-> [ j \in 1..Len(data[accId].stocks) |->
            perturb(data[accId].stocks[Len(data[accId].stocks) + 1 - j],
                    RandomAt(TickDraws, shift, QuoteOrdinal(accId, j)), up, t) ]] ]

\* the setInterval callback: every quote of every account perturbed once
tickAccountData(data, shift, up, t) ==
    [ accId \in DOMAIN data |->
        [stocks |-> [ j \in 1..Len(data[accId].stocks) |->
            perturb(data[accId].stocks[j],
                    RandomAt(TickDraws, shift, QuoteOrdinal(accId, j)), up, t) ]] ]

---------------------------------------------------------------------------
(* apiFetch: the three routes *)

\* names every object inherits from Object.prototype: store.accounts and
\* store.accountData are object literals, and obj[key] finds these too
ObjectPrototypeKeys == {"constructor", "__proto__", "toString", "hasOwnProperty", "valueOf"}

RECURSIVE UrlSegments(_, _)
\* new URL(path, "http://localhost").pathname, as segments: the URL parser
\* drops "." segments and lets ".." remove the segment before it
UrlSegments(raw, acc) ==
    IF raw = <<>> THEN acc
    ELSE IF Head(raw) = "." THEN UrlSegments(Tail(raw), acc)
    ELSE IF Head(raw) = ".."
         THEN UrlSegments(Tail(raw), IF acc = <<>> THEN acc ELSE SubSeq(acc, 1, Len(acc) - 1))
    ELSE UrlSegments(Tail(raw), Append(acc, Head(raw)))

\* .split("/").filter(Boolean): the empty segments removed
FilterBoolean(segs) == SelectSeq(segs, LAMBDA x : x # "")

Parts(path) == FilterBoolean(UrlSegments(path, <<>>))

\* parts[i], 0-based as in the code; undefined is written "undefined"
PartAt(parts, i) == IF i + 1 <= Len(parts) THEN parts[i + 1] ELSE "undefined"

\* store.accounts[companyId] || []
AccountsOf(companyId) ==
    IF companyId \in CompanyIds THEN [kind |-> "array", val |-> StoreAccounts[companyId]]
    ELSE IF companyId \in ObjectPrototypeKeys THEN [kind |-> "inherited", val |-> <<>>]
    ELSE [kind |-> "array", val |-> <<>>]

\* store.accountData[accountId] || { stocks: [] }
AccountDataOf(st, accountId) ==
    IF accountId \in DOMAIN st.accountData
    THEN [kind |-> "stocks", val |-> st.accountData[accountId].stocks]
    ELSE IF accountId \in ObjectPrototypeKeys THEN [kind |-> "inherited", val |-> <<>>]
    ELSE [kind |-> "stocks", val |-> <<>>]

\* What apiFetch(path) resolves to: the status and the route whose json()
\* closure it returns (with the id the closure captured)
apiFetch(path) ==
    LET parts == Parts(path)
    IN  IF PartAt(parts, 0) = "companies" /\ Len(parts) = 1
        THEN [status |-> 200, route |-> "companies", id |-> ""]
        ELSE IF PartAt(parts, 0) = "companies" /\ Len(parts) >= 3 /\ PartAt(parts, 2) = "accounts"
        THEN [status |-> 200, route |-> "accounts", id |-> PartAt(parts, 1)]
        ELSE IF PartAt(parts, 0) = "accounts" /\ Len(parts) >= 3 /\ PartAt(parts, 2) = "data"
        THEN [status |-> 200, route |-> "data", id |-> PartAt(parts, 1)]
        ELSE [status |-> 404, route |-> "notfound", id |-> ""]

\* res.json(), read from the store as it is when json() is called
json(res, st) ==
    CASE res.route = "companies" -> [kind |-> "array", val |-> StoreCompanies]
      [] res.route = "accounts"  -> AccountsOf(res.id)
      [] res.route = "data"      -> AccountDataOf(st, res.id)
      [] OTHER                   -> [kind |-> "error", val |-> <<"not found">>]

---------------------------------------------------------------------------
(* Initial states and actions *)

NoResponse == [status |-> 0, body |-> [kind |-> "none", val |-> <<>>]]

NoCall == [op |-> "none", price |-> 0, k |-> 0, up |-> TRUE]

NoResult == [done |-> FALSE, price |-> 0]

\* the tick callback is not running
TickIdle == [pos |-> 0, shift |-> 0, up |-> TRUE]

\* no viewer is mounted
NoViewer == [mounted |-> FALSE]

\* createMockServer has run: the store is seeded, the tick timer is set
InitStore ==
    /\ now = 0
    /\ \E shift \in 0..(Len(InitDraws) - 1), up \in BOOLEAN :
          store = [accountData |-> initAccountData(shift, up, 0)]

\* The setInterval callback fires: one second later every quote is perturbed
Tick ==
    /\ now < MaxTicks
    /\ now' = now + 1
    /\ \E shift \in 0..(Len(TickDraws) - 1), up \in BOOLEAN :
          store' = [store EXCEPT !.accountData = tickAccountData(@, shift, up, now + 1)]
    /\ UNCHANGED <<reqPath, response, fnIn, fnOut, app, tick>>

(* The store and its simulator *)
InitSim ==
    /\ InitStore
    /\ app = NoViewer
    /\ reqPath = <<>>
    /\ response = NoResponse
    /\ fnIn = NoCall
    /\ fnOut = NoResult
    /\ tick = TickIdle

NextSim == Tick

SpecSim == InitSim /\ [][NextSim]_vars

(* One request to apiFetch, on a path of the caller's choice *)

\* the segments a caller builds a path from: the route words, a seeded
\* company and account, an unknown id, a name every object inherits, and
\* the segments the URL parser treats specially
Segments == {"companies", "accounts", "data", "c1", "a1", "zz", "constructor", "", ".", ".."}

RECURSIVE SeqsUpTo(_, _)
\* the sequences over S of length 1 to n
SeqsUpTo(S, n) ==
    IF n = 0 THEN {}
    ELSE LET shorter == SeqsUpTo(S, n - 1)
         IN  { <<x>> : x \in S } \cup shorter \cup
             { Append(p, x) : p \in { q \in shorter : Len(q) = n - 1 }, x \in S }

Paths == SeqsUpTo(Segments, MaxPathLen)

InitApi ==
    /\ InitStore
    /\ app = NoViewer
    /\ reqPath \in Paths
    /\ response = NoResponse
    /\ fnIn = NoCall
    /\ fnOut = NoResult
    /\ tick = TickIdle

\* The 120 ms timer of apiFetch(reqPath) fires, apiFetch resolves and the
\* caller reads the status and json()
ApiFetchResolve ==
    /\ response = NoResponse
    /\ LET res == apiFetch(reqPath)
       IN  response' = [status |-> res.status, body |-> json(res, store)]
    /\ UNCHANGED <<store, now, reqPath, fnIn, fnOut, app, tick>>

NextApi == ApiFetchResolve

SpecApi == InitApi /\ [][NextApi]_vars

(* One price update of the tick, on a price and a draw of the caller's choice *)

\* Prices a quote is tried at: every price up to MaxSmallPrice cents (the
\* random walk stops falling at 0.49 or 0.50, where 1% no longer rounds to a
\* cent; the prices below are those the floor is written for) and prices of
\* the seeded range
CallPrices == (1..MaxSmallPrice) \cup {10000, 15049, 15050, 19999, 20000}

CallDraws == {0, 1, 10000, 19999, 20000, 20001, 30000, 39998, 39999}

InitPrice ==
    /\ InitStore
    /\ app = NoViewer
    /\ reqPath = <<>>
    /\ response = NoResponse
    /\ fnIn \in [op : {"newPrice"}, price : CallPrices, k : CallDraws, up : BOOLEAN]
    /\ fnOut = NoResult
    /\ tick = TickIdle

CallNewPrice ==
    /\ fnIn.op = "newPrice"
    /\ fnOut = NoResult
    /\ fnOut' = [done |-> TRUE, price |-> newPrice(fnIn.price, fnIn.k, fnIn.up)]
    /\ UNCHANGED <<store, now, reqPath, response, fnIn, app, tick>>

NextPrice == CallNewPrice

SpecPrice == InitPrice /\ [][NextPrice]_vars

---------------------------------------------------------------------------
(* The event loop of the page: the tick callback, quote by quote, and queries *)

\* JavaScript runs one callback at a time, to completion.  The tick callback
\* is synchronous (its forEach loops await nothing), so from the moment the
\* timer fires until the last quote is perturbed no other callback runs.

NumQuotes == StocksBefore(Len(FlatAccounts) + 1)

\* the (account id, position) of the n-th quote the forEach loops visit
QuoteOfOrdinal(n) ==
    CHOOSE q \in UNION { { <<FlatAccounts[i].id, j>> : j \in 1..Len(FlatAccounts[i].stocks) } :
                         i \in 1..Len(FlatAccounts) } :
        QuoteOrdinal(q[1], q[2]) = n

\* a tick callback that awaits between quotes and so lets other callbacks in
callbackRunningNever(tk) == FALSE

\* the tick callback is on the stack: it has started and has quotes left
callbackRunning(tk) == tk.pos # 0

\* the paths the callers of apiFetch ask for
QueryPaths == { <<"accounts", "a1", "data">>, <<"accounts", "b2", "data">>,
                <<"companies", "c1", "accounts">> }

InitLoop ==
    /\ InitStore
    /\ app = NoViewer
    /\ reqPath = <<>>
    /\ response = NoResponse
    /\ fnIn = NoCall
    /\ fnOut = NoResult
    /\ tick = TickIdle

\* The 1-second timer fires and the tick callback starts
TickFire ==
    /\ ~callbackRunning(tick)
    /\ now < MaxLoopTicks
    /\ now' = now + 1
    /\ \E shift \in 0..(Len(TickDraws) - 1), up \in BOOLEAN :
          tick' = [pos |-> 1, shift |-> shift, up |-> up]
    /\ UNCHANGED <<store, reqPath, response, fnIn, fnOut, app>>

\* One pass of the body of acc.stocks.forEach: the next quote is perturbed
TickQuote ==
    /\ tick.pos >= 1
    /\ LET q == QuoteOfOrdinal(tick.pos)
       IN  store' = [store EXCEPT !.accountData[q[1]].stocks[q[2]] =
                        perturb(@, RandomAt(TickDraws, tick.shift, tick.pos), tick.up, now)]
    /\ tick' = IF tick.pos = NumQuotes THEN TickIdle ELSE [tick EXCEPT !.pos = @ + 1]
    /\ UNCHANGED <<now, reqPath, response, fnIn, fnOut, app>>

\* A caller calls apiFetch(path): its 120 ms timer is set
QueryCall ==
    /\ ~callbackRunning(tick)
    /\ reqPath = <<>> \/ response # NoResponse
    /\ reqPath' \in QueryPaths
    /\ response' = NoResponse
    /\ UNCHANGED <<store, now, fnIn, fnOut, app, tick>>

\* The 120 ms timer fires, apiFetch resolves and the caller reads json()
QueryResolve ==
    /\ ~callbackRunning(tick)
    /\ reqPath # <<>>
    /\ response = NoResponse
    /\ LET res == apiFetch(reqPath)
       IN  response' = [status |-> res.status, body |-> json(res, store)]
    /\ UNCHANGED <<store, now, reqPath, fnIn, fnOut, app, tick>>

NextLoop ==
    \/ TickFire
    \/ TickQuote
    \/ QueryCall
    \/ QueryResolve

SpecLoop == InitLoop /\ [][NextLoop]_vars

---------------------------------------------------------------------------
(* The viewer: StockBrokerDashboard *)

\* An event handler, the render that follows it and the effects of that
\* render are one step: nothing else runs in between.  Every apiFetch call
\* waits on a timer of the same 120 ms, and timers of equal delay fire in the
\* order they were set: the calls in flight are a queue.

EmptyData == [stocks |-> <<>>]

\* clearInterval(id)
clearInterval(a, id) == [a EXCEPT !.intervals = { t \in @ : t.id # id }]

\* callApi(path) called; then names what runs on its result
callApi(a, path, then) == [a EXCEPT !.pending = Append(@, [path |-> path, then |-> then])]

\* the [selectedCompany] effect
companyEffect(a) ==
    IF a.selectedCompany = ""
    THEN [a EXCEPT !.accounts = <<>>]
    ELSE callApi(a, <<"companies", a.selectedCompany, "accounts">>, "accounts")

effectCleanupNone(a) == a

\* the cleanup the [selectedAccount] effect returns:
\* pollingRef.current && clearInterval(pollingRef.current)
effectCleanup(a) == IF a.pollingRef # 0 THEN clearInterval(a, a.pollingRef) ELSE a

\* the [selectedAccount] effect: clear the old timer, fetchOnce(), set the
\* new timer for the account of this render
accountEffect(a) ==
    IF a.selectedAccount = ""
    THEN [a EXCEPT !.accountData = EmptyData]
    ELSE LET b == IF a.pollingRef # 0 THEN clearInterval(a, a.pollingRef) ELSE a
             c == callApi(b, <<"accounts", a.selectedAccount, "data">>, "data")
         IN  [c EXCEPT !.timerSeq = @ + 1,
                       !.pollingRef = c.timerSeq + 1,
                       !.intervals = @ \cup {[id |-> c.timerSeq + 1, account |-> a.selectedAccount]}]

\* The render after a handler turned the state old into new: React runs the
\* cleanup of every effect whose dependency changed, then those effects in
\* the order they are declared.  The [selectedAccount] effect has a cleanup
\* only when its last run was for a non-empty account.
Commit(old, new) ==
    LET companyChanged == new.selectedCompany # old.selectedCompany
        accountChanged == new.selectedAccount # old.selectedAccount
        a1 == IF accountChanged /\ old.selectedAccount # "" THEN effectCleanup(new) ELSE new
        a2 == IF companyChanged THEN companyEffect(a1) ELSE a1
        a3 == IF accountChanged THEN accountEffect(a2) ELSE a2
    IN  [a3 EXCEPT !.manualPick = IF companyChanged THEN FALSE ELSE @]

\* setCompanies
companiesThen(a, body) == [a EXCEPT !.companies = body.val]

accountsThenNoSelect(a, body) == [a EXCEPT !.accounts = body.val]

\* the callback on the account list: setAccounts(a || []), and
\* setSelectedAccount(a[0].id) when the list is not empty
accountsThen(a, body) ==
    IF Len(body.val) > 0
    THEN [a EXCEPT !.accounts = body.val, !.selectedAccount = body.val[1].id]
    ELSE [a EXCEPT !.accounts = body.val]

\* fetchOnce after its await: setAccountData(d)
dataThen(a, body) == [a EXCEPT !.accountData = [stocks |-> body.val]]

\* the steps stay within the bounds of the model
WithinBounds(a) == Len(a.pending) <= MaxPending /\ a.timerSeq <= MaxTimers

\* The component is mounted: nothing selected, the company list requested
\* (twice under React.StrictMode in a development build, which runs the
\* mount effects, their cleanups and the effects again)
InitViewer ==
    \E strictDev \in BOOLEAN :
        app = [ mounted |-> TRUE, email |-> "", loggedIn |-> FALSE,
                companies |-> <<>>, selectedCompany |-> "",
                accounts |-> <<>>, selectedAccount |-> "",
                accountData |-> EmptyData, pollingRef |-> 0,
                intervals |-> {}, timerSeq |-> 0,
                pending |-> IF strictDev
                            THEN << [path |-> <<"companies">>, then |-> "companies"],
                                    [path |-> <<"companies">>, then |-> "companies"] >>
                            ELSE << [path |-> <<"companies">>, then |-> "companies"] >>,
                \* history: the user picked an account since the company last changed
                manualPick |-> FALSE ]

Init ==
    /\ InitStore
    /\ InitViewer
    /\ reqPath = <<>>
    /\ response = NoResponse
    /\ fnIn = NoCall
    /\ fnOut = NoResult
    /\ tick = TickIdle

\* the user types into, or empties, the email field of the login form
TypeEmail ==
    /\ ~app.loggedIn
    /\ \E e \in {"", "you@company.com"} :
          /\ e # app.email
          /\ app' = [app EXCEPT !.email = e]
    /\ UNCHANGED <<store, now, reqPath, response, fnIn, fnOut, tick>>

\* handleLogin with an email entered (without one it only alerts)
Login ==
    /\ ~app.loggedIn
    /\ app.email # ""
    /\ LET new == [app EXCEPT !.loggedIn = TRUE,
                              !.selectedCompany =
                                  IF @ = "" /\ Len(app.companies) > 0
                                  THEN app.companies[1].id ELSE @]
           next == Commit(app, new)
       IN  WithinBounds(next) /\ app' = next
    /\ UNCHANGED <<store, now, reqPath, response, fnIn, fnOut, tick>>

\* the Sign out button
SignOut ==
    /\ app.loggedIn
    /\ LET new == [app EXCEPT !.loggedIn = FALSE, !.email = "",
                              !.selectedAccount = "", !.selectedCompany = ""]
       IN  app' = Commit(app, new)
    /\ UNCHANGED <<store, now, reqPath, response, fnIn, fnOut, tick>>

\* the user picks another option of the Company select
SelectCompany ==
    /\ app.loggedIn
    /\ \E c \in {""} \cup { app.companies[i].id : i \in 1..Len(app.companies) } :
          /\ c # app.selectedCompany
          /\ LET next == Commit(app, [app EXCEPT !.selectedCompany = c])
             IN  WithinBounds(next) /\ app' = next
    /\ UNCHANGED <<store, now, reqPath, response, fnIn, fnOut, tick>>

\* the user picks another option of the Account select
SelectAccount ==
    /\ app.loggedIn
    /\ \E c \in {""} \cup { app.accounts[i].id : i \in 1..Len(app.accounts) } :
          /\ c # app.selectedAccount
          /\ LET next == Commit(app, [app EXCEPT !.selectedAccount = c, !.manualPick = TRUE])
             IN  WithinBounds(next) /\ app' = next
    /\ UNCHANGED <<store, now, reqPath, response, fnIn, fnOut, tick>>

\* an interval timer fires: fetchOnce for the account of the render that set it
PollTimer ==
    /\ \E t \in app.intervals :
          LET next == callApi(app, <<"accounts", t.account, "data">>, "data")
          IN  WithinBounds(next) /\ app' = next
    /\ UNCHANGED <<store, now, reqPath, response, fnIn, fnOut, tick>>

\* The oldest apiFetch call in flight resolves.  callApi returns res.json(),
\* read from the store now, when the status is 2xx and throws otherwise (the
\* callers log the error or drop it); the caller's callback runs on the body.
Deliver ==
    /\ app.pending # <<>>
    /\ LET req    == Head(app.pending)
           res    == apiFetch(req.path)
           body   == json(res, store)
           popped == [app EXCEPT !.pending = Tail(@)]
           new    == IF ~(res.status >= 200 /\ res.status < 300) THEN popped
                     ELSE IF req.then = "companies" THEN companiesThen(popped, body)
                     ELSE IF req.then = "accounts" THEN accountsThen(popped, body)
                     ELSE dataThen(popped, body)
           next   == Commit(popped, new)
       IN  WithinBounds(next) /\ app' = next
    /\ UNCHANGED <<store, now, reqPath, response, fnIn, fnOut, tick>>

Next ==
    \/ TypeEmail
    \/ Login
    \/ SignOut
    \/ SelectCompany
    \/ SelectAccount
    \/ PollTimer
    \/ Deliver

Spec == Init /\ [][Next]_vars

---------------------------------------------------------------------------
(* Properties of the store and its simulator *)

\* the quotes of the store, as (account id, position) pairs
QuoteKeys(st) ==
    UNION { { <<a, j>> : j \in 1..Len(st.accountData[a].stocks) } : a \in DOMAIN st.accountData }

QuoteAt(st, q) == st.accountData[q[1]].stocks[q[2]]

\* C1: in every reachable state of the store every quote of every account
\* has price >= 0.01
C1_PriceFloor ==
    \A q \in QuoteKeys(store) : QuoteAt(store, q).price >= FloorCents

\* a tick has run and lowered a price
C1_Witness ==
    /\ now >= 1
    /\ \E q \in QuoteKeys(store) : QuoteAt(store, q).change < 0

\* C2: change is 0 after initialization, and after each tick it is the new
\* price minus the price the quote had immediately before that tick
C2_ChangeIsDifference ==
    /\ \A q \in QuoteKeys(store) : QuoteAt(store, q).change = 0
    /\ [][ \A q \in QuoteKeys(store) :
              QuoteAt(store', q).change = QuoteAt(store', q).price - QuoteAt(store, q).price ]_vars

\* two ticks have run and the last one moved a price
C2_Witness ==
    /\ now >= 2
    /\ \E q \in QuoteKeys(store) : QuoteAt(store, q).change # 0

Tickers(quotes) == [ j \in 1..Len(quotes) |-> quotes[j].ticker ]

\* C6: for every seeded account, in every reachable state, the tickers of
\* the quotes that /accounts/{accountId}/data returns are the account's
\* seeded ticker list, same length and same order
C6_TickersAsSeeded ==
    \A i \in 1..Len(FlatAccounts) :
        LET res  == apiFetch(<<"accounts", FlatAccounts[i].id, "data">>)
            body == json(res, store)
        IN  /\ res.status = 200
            /\ body.kind = "stocks"
            /\ Tickers(body.val) = FlatAccounts[i].stocks

\* ticks have run, and every quote of an account of three has a new price
C6_Witness ==
    /\ now >= 2
    /\ Len(store.accountData["a1"].stocks) = 3
    /\ \A j \in 1..3 : store.accountData["a1"].stocks[j].change # 0

\* C7 as stated: after initialization every price p satisfies 100 <= p < 200
C7_InitialPriceHalfOpen ==
    now = 0 =>
        \A q \in QuoteKeys(store) :
            /\ QuoteAt(store, q).price >= BaseCents
            /\ QuoteAt(store, q).price < 2 * BaseCents

\* C7, amended: after initialization every price p satisfies 100 <= p <= 200
\* (a draw of 0.99995 or more rounds to 200.00)
C7_InitialPriceClosed ==
    now = 0 =>
        \A q \in QuoteKeys(store) :
            /\ QuoteAt(store, q).price >= BaseCents
            /\ QuoteAt(store, q).price <= 2 * BaseCents

\* a freshly seeded store with a quote at 200.00 and a quote at 100.00
C7_Witness ==
    /\ now = 0
    /\ \E q \in QuoteKeys(store) : QuoteAt(store, q).price = 2 * BaseCents
    /\ \E q \in QuoteKeys(store) : QuoteAt(store, q).price = BaseCents

\* C8: the price after a tick lies within 2% of the price before it:
\* |after - before| <= 0.02 * before, for every price and every draw
C8_WithinTwoPercent ==
    fnOut.done => 100 * Abs(fnOut.price - fnIn.price) <= 2 * fnIn.price

\* a price update that moved the price by exactly 2% (0.50 to 0.49)
C8_Witness ==
    /\ fnOut.done
    /\ fnOut.price # fnIn.price
    /\ 100 * Abs(fnOut.price - fnIn.price) = 2 * fnIn.price

---------------------------------------------------------------------------
(* Properties of apiFetch *)

\* an id a caller puts in a path: a segment that is not empty and not a dot segment
IsIdSegment(x) == x \notin {"", ".", ".."}

\* /companies/{companyId}/accounts, as written by the caller
IsAccountsPath(path) ==
    /\ Len(path) = 3
    /\ path[1] = "companies"
    /\ IsIdSegment(path[2])
    /\ path[3] = "accounts"

\* /accounts/{accountId}/data, as written by the caller
IsDataPath(path) ==
    /\ Len(path) = 3
    /\ path[1] = "accounts"
    /\ IsIdSegment(path[2])
    /\ path[3] = "data"

\* C3: for every companyId that is not the id of a seeded company,
\* /companies/{companyId}/accounts returns status 200 and an empty sequence
C3_UnknownCompanyEmpty ==
    (response # NoResponse /\ IsAccountsPath(reqPath) /\ reqPath[2] \notin CompanyIds) =>
        /\ response.status = 200
        /\ response.body.kind = "array"
        /\ response.body.val = <<>>

\* C4: for every accountId that is not the id of a seeded account,
\* /accounts/{accountId}/data returns status 200 and { stocks: [] }
C4_UnknownAccountEmpty ==
    (response # NoResponse /\ IsDataPath(reqPath) /\ reqPath[2] \notin AccountIds) =>
        /\ response.status = 200
        /\ response.body.kind = "stocks"
        /\ response.body.val = <<>>

\* one of the three shapes, read from the path as the URL parser normalizes
\* it (dot segments resolved, empty segments dropped)
IsRouteShape(path) ==
    LET parts == Parts(path)
    IN  \/ parts = <<"companies">>
        \/ Len(parts) = 3 /\ parts[1] = "companies" /\ parts[3] = "accounts"
        \/ Len(parts) = 3 /\ parts[1] = "accounts" /\ parts[3] = "data"

\* C5: apiFetch returns 404 and { error: "not found" } for every path that is
\* not one of the three shapes, and 200 for every path that is
C5_NotFoundUnlessRoute ==
    response # NoResponse =>
        IF IsRouteShape(reqPath)
        THEN response.status = 200
        ELSE /\ response.status = 404
             /\ response.body = [kind |-> "error", val |-> <<"not found">>]

---------------------------------------------------------------------------
(* Properties of the viewer *)

IsAccountsRequest(req) == req.then = "accounts"

\* no response to an account-list request is still to be delivered
NoListInFlight(a) == \A i \in 1..Len(a.pending) : ~IsAccountsRequest(a.pending[i])

\* With a company selected, every account-list response delivered and no
\* account picked by hand since the company changed, the account list is
\* that company's and the selected account is its first account
C9Settled(a) ==
    (a.selectedCompany # "" /\ NoListInFlight(a) /\ ~a.manualPick) =>
        /\ a.accounts = StoreAccounts[a.selectedCompany]
        /\ a.selectedAccount = StoreAccounts[a.selectedCompany][1].id

\* A step that changes the selected company to a non-empty id requests that
\* company's account list
C9Requests ==
    (app'.selectedCompany # app.selectedCompany /\ app'.selectedCompany # "") =>
        /\ Len(app'.pending) = Len(app.pending) + 1
        /\ app'.pending[Len(app'.pending)] =
              [path |-> <<"companies", app'.selectedCompany, "accounts">>, then |-> "accounts"]

\* The delivery of an account-list response replaces the account list and
\* selects the first account of the response
C9Delivers ==
    (Deliver /\ IsAccountsRequest(Head(app.pending))) =>
        LET list == StoreAccounts[Head(app.pending).path[2]]
        IN  /\ app'.accounts = list
            /\ app'.selectedAccount = list[1].id

\* C9: a change of the selected company to a non-empty id requests that
\* company's account list; the delivered response replaces the account list
\* and selects its first account; and once every account-list response in
\* flight has been delivered, with no account picked by hand in between, the
\* selected account is the first account of the most recently selected company
C9_AutoSelectFirstAccount ==
    /\ C9Settled(app)
    /\ [][C9Requests /\ C9Delivers /\ C9Settled(app')]_vars

\* the company was changed after an account had been selected, and the
\* responses are in: company c2 with its first account b1 on a later timer
C9_Witness ==
    /\ app.selectedCompany = "c2"
    /\ NoListInFlight(app)
    /\ ~app.manualPick
    /\ app.selectedAccount = "b1"
    /\ app.timerSeq >= 2
    /\ app.accounts = StoreAccounts["c2"]

\* C10: at most one polling timer is active; a timer is active only while a
\* non-empty account is selected, and it polls the selected account
C10_OnePollingTimer ==
    /\ Cardinality(app.intervals) <= 1
    /\ \A t \in app.intervals :
          /\ app.selectedAccount # ""
          /\ t.account = app.selectedAccount

\* an account was selected after another one (or after a deselection), and
\* the only timer is the newest one, for the selected account
C10_Witness ==
    /\ app.timerSeq >= 3
    /\ app.selectedAccount = "a2"
    /\ app.intervals = {[id |-> app.timerSeq, account |-> "a2"]}

---------------------------------------------------------------------------
(* Properties of the event loop *)

\* Every quote of the store has been perturbed the same number of times: a
\* quote perturbed by the n-th tick carries updatedAt = n
EvenlyPerturbed(st) ==
    \A q1 \in QuoteKeys(st), q2 \in QuoteKeys(st) :
        QuoteAt(st, q1).updatedAt = QuoteAt(st, q2).updatedAt

\* C11: ticks never overlap and are atomic with respect to queries: when a
\* tick starts and when a query response body is read, every quote of the
\* store has been perturbed the same number of times
C11_TicksAtomic ==
    [][ (QueryResolve \/ TickFire) => EvenlyPerturbed(store) ]_vars

\* a response read after the first tick, its timer having been set before
\* or after that tick, while the second tick is under way
C11_Witness ==
    /\ response.status = 200
    /\ response.body.kind = "stocks"
    /\ Len(response.body.val) > 0
    /\ response.body.val[1].updatedAt = 1
    /\ now = 2
    /\ tick.pos > 1

---------------------------------------------------------------------------
(* Properties of the viewer: sign-out and stale selections *)

\* C12: while the viewer is signed out the selected company and the selected
\* account are empty and no polling timer is active, whatever responses were
\* in flight when the user signed out (before the first sign-in nothing has
\* been selected either)
C12_SignedOutStaysEmpty ==
    ~app.loggedIn =>
        /\ app.selectedCompany = ""
        /\ app.selectedAccount = ""
        /\ app.intervals = {}

\* the ids of the accounts of company c in the store (none for no company)
AccountIdsOf(c) ==
    IF c \in DOMAIN StoreAccounts
    THEN { StoreAccounts[c][i].id : i \in 1..Len(StoreAccounts[c]) }
    ELSE {}

\* C13: in every quiescent state (no request in flight) the selected account
\* is empty or is an account of the currently selected company
C13_AccountOfSelectedCompany ==
    app.pending = <<>> =>
        \/ app.selectedAccount = ""
        \/ app.selectedAccount \in AccountIdsOf(app.selectedCompany)

====
